---- MODULE Spec2Model ----
(***************************************************************************)
(* Model of the Jellyfin integration's client manager                      *)
(* (JellyfinClientManager and JellyfinDevice of __init__.py):              *)
(*   - the backoff generator expo and the reconnect loop of the websocket  *)
(*     event handler,                                                      *)
(*   - the session-diffing device cache (update_device_list, update_check, *)
(*     JellyfinDevice.state) and the callback registries.                  *)
(***************************************************************************)
EXTENDS Integers, Sequences, FiniteSets, TLC

VARIABLES
    timeout_gen,    \* the generator object made by expo(max_value)
    yielded,        \* values the generator has yielded so far
    is_stopping,    \* JellyfinClientManager.is_stopping
    jf_client,      \* JellyfinClientManager.jf_client (the client object held)
    main_pc,        \* position of the event-loop side: start() / stop()
    ws_pc,          \* position of the websocket thread inside event()
    event_name,     \* the event the websocket thread is handling / handled last
    timeout,        \* local variable timeout of the reconnect loop
    waits,          \* the first time.sleep(timeout) calls made for the current event
    login_result,   \* what the last self.login() of the loop returned
    listening,      \* a client carrying the event handler has been started
    _info,          \* JellyfinClientManager._info
    _sessions,      \* JellyfinClientManager._sessions
    _devices,       \* JellyfinClientManager._devices, in insertion order
    _new_devices_callbacks,     \* registered new-devices callbacks
    _stale_devices_callbacks,   \* registered stale-devices callbacks
    _update_callbacks,          \* registered [callback, device] pairs
    scheduled,      \* the call_soon(callback, msg) calls of the last Sessions event
    event_seq,      \* number of Sessions events handled, modulo 2
    arg_existing,   \* update_check: the argument existing, a cached JellyfinDevice
    arg_new,        \* update_check: the argument new, the incoming session
    returned,       \* update_check: the value returned, once it has returned
    posted,         \* the post_session calls made for transport commands
    stop_pc,        \* position of stop(), called once on the event loop
    hass_data,      \* keys of hass.data[DOMAIN][url]
    forwarded,      \* the platforms forwarded by async_setup_entry
    config_url,     \* config_entry[CONF_URL], as the parts it was written from
    server_url,     \* login: self.server_url once computed, or the exception
    browse_args,    \* library_items: media_content_type and media_content_id
    requests,       \* library_items: the get_item and get_items requests made
    browsed,        \* library_items: its outcome, once it has ended
    wsc             \* the websocket of the client held: open or not, messages sent

expoVars == <<timeout_gen, yielded>>
reconnectVars == <<is_stopping, jf_client, main_pc, ws_pc, event_name, timeout,
                   waits, login_result, listening, _info>>
registryVars == <<_new_devices_callbacks, _stale_devices_callbacks,
                  _update_callbacks>>
cacheVars == <<_sessions, _devices, scheduled, event_seq>>
checkVars == <<arg_existing, arg_new, returned>>
commandVars == <<posted>>
urlVars == <<config_url, server_url>>
browseVars == <<browse_args, requests, browsed>>
callVars == <<checkVars, commandVars, urlVars, browseVars>>
entryVars == <<stop_pc, hass_data, forwarded>>
connVars == <<wsc>>
vars == <<expoVars, reconnectVars, registryVars, cacheVars, callVars, entryVars,
          connVars>>

-----------------------------------------------------------------------------
(* Bounds of the model *)

\* number of values drawn from one generator
MaxYields == 9
\* largest small cap tried for expo, besides the reconnect loop's cap
MaxCap == 9
\* number of waits recorded within one disconnect event
MaxAttempts == 9
\* longest session list of a Sessions event
MaxSessions == 2
\* longest list of new-devices callbacks and of stale-devices callbacks
MaxCallbacks == 1
\* longest list of update callbacks
MaxUpdateCallbacks == 1
\* longest host name of a configured URL
MaxHost == 2
\* longest path of a configured URL
MaxPath == 2
\* longest list of items get_items answers
MaxItems == 2
\* number of transport commands followed
MaxCommands == 1
\* largest numerator of a seek position
MaxPos == 3

(* Program constants *)

\* self.expo(100)
RECONNECT_MAX == 100
\* int(pos * 10000000)
TicksPerSecond == 10000000

-----------------------------------------------------------------------------
(* Helpers *)

RECURSIVE Pow2(_)
Pow2(n) == IF n = 0 THEN 1 ELSE 2 * Pow2(n - 1)

Min(a, b) == IF a <= b THEN a ELSE b

-----------------------------------------------------------------------------
(* expo: the backoff generator.  The generator object holds max_value       *)
(* (bounded = FALSE stands for max_value = None) and its local n.           *)

expo(bounded, max_value) == [bounded |-> bounded, max_value |-> max_value, n |-> 0]

\* mutant: the cap is never applied
ExpoYieldUncapped(g) == Pow2(g.n)

\* the value the next next(g) yields:  a = 2 ** n;  a if a < max_value, else max_value
ExpoYield(g) ==
    LET a == Pow2(g.n)
    IN  IF ~g.bounded \/ a < g.max_value THEN a ELSE g.max_value

\* mutant: n is never incremented
ExpoAdvanceStuck(g) == g

\* the generator after that next(g):  n += 1 only in the first branch
ExpoAdvance(g) ==
    LET a == Pow2(g.n)
    IN  IF ~g.bounded \/ a < g.max_value THEN [g EXCEPT !.n = g.n + 1] ELSE g

ExpoCaps == (-1 .. MaxCap) \cup {RECONNECT_MAX}

-----------------------------------------------------------------------------
(* Sessions and devices.  A session is the dict the server reports, as a    *)
(* function on its keys (after clean_none_dict_values, so a key is present  *)
(* exactly when it has a value); a JellyfinDevice is its session and its    *)
(* is_active flag.                                                          *)

STATE_PLAYING == "Playing"
STATE_PAUSED == "Paused"
STATE_IDLE == "Idle"
STATE_OFF == "Off"

PLATFORMS == <<"sensor", "media_player">>

\* config_entry[CONF_CLIENT_ID]: the DeviceId of the integration's own session
CONF_CLIENT_ID == "hass"

\* (DeviceId, Client) of the integration's own session and of the clients
\* that report sessions
HomeAssistant == <<CONF_CLIENT_ID, "Home Assistant">>
Endpoints == {<<"d1", "web">>, <<"d2", "tv">>, HomeAssistant}

\* NowPlayingItem values: IsThemeMedia missing, false, true
PlainItem == [Name |-> "movie"]
Items == {PlainItem,
          [Name |-> "movie", IsThemeMedia |-> FALSE],
          [Name |-> "theme", IsThemeMedia |-> TRUE]}

IdleSession(e, paused) ==
    [Id |-> "s-" \o e[1], DeviceId |-> e[1], Client |-> e[2],
     PlayState |-> [IsPaused |-> paused]]

PlayingSession(e, paused, item) ==
    [Id |-> "s-" \o e[1], DeviceId |-> e[1], Client |-> e[2],
     PlayState |-> [IsPaused |-> paused], NowPlayingItem |-> item]

AllSessions ==
    {IdleSession(e, p) : e \in Endpoints, p \in BOOLEAN}
        \cup {PlayingSession(e, p, it) : e \in Endpoints, p \in BOOLEAN, it \in Items}

\* JellyfinDevice(session, jf_manager): is_active = True; update_data(session)
JellyfinDevice(session) == [session |-> session, is_active |-> TRUE]

\* mutant: the paused flag is ignored
StateNoPause(dev) ==
    IF dev.is_active
    THEN IF "NowPlayingItem" \in DOMAIN dev.session
         THEN STATE_PLAYING
         ELSE STATE_IDLE
    ELSE STATE_OFF

\* JellyfinDevice.state
State(dev) ==
    IF dev.is_active
    THEN IF "NowPlayingItem" \in DOMAIN dev.session
         THEN IF dev.session.PlayState.IsPaused
              THEN STATE_PAUSED
              ELSE STATE_PLAYING
         ELSE STATE_IDLE
    ELSE STATE_OFF

\* session['NowPlayingItem']['IsThemeMedia'], False on KeyError or without item
ThemeOf(session) ==
    IF "NowPlayingItem" \in DOMAIN session
    THEN IF "IsThemeMedia" \in DOMAIN session.NowPlayingItem
         THEN session.NowPlayingItem.IsThemeMedia
         ELSE FALSE
    ELSE FALSE

\* the new_state computed by update_check from the incoming session
NewState(new) ==
    IF "NowPlayingItem" \in DOMAIN new
    THEN IF new.PlayState.IsPaused THEN STATE_PAUSED ELSE STATE_PLAYING
    ELSE STATE_IDLE

\* update_check(existing, new)
update_check(existing, new) ==
    LET old_state == State(existing)
        old_theme == ThemeOf(existing.session)
        new_state == NewState(new)
        new_theme == ThemeOf(new)
    IN  IF old_theme \/ new_theme THEN FALSE
        ELSE IF old_state = STATE_PLAYING \/ new_state = STATE_PLAYING THEN TRUE
        ELSE IF old_state # new_state THEN TRUE
        ELSE FALSE

\* dev_name = '{}.{}'.format(device['DeviceId'], device['Client'])
DevName(device) == device.DeviceId \o "." \o device.Client

-----------------------------------------------------------------------------
(* The client object.  login() replaces it by a fresh one from              *)
(* client_factory; start() installs the handler on the one held then and    *)
(* starts it.                                                               *)

NoClient == [exists |-> FALSE, callback |-> FALSE, started |-> FALSE,
             authenticated |-> FALSE]

\* client_factory(config_entry) followed by the login calls
client_factory(ok) == [exists |-> TRUE, callback |-> FALSE, started |-> FALSE,
                       authenticated |-> ok]

\* the websocket of a client: not connected, nothing sent on it
Closed == [open |-> FALSE, sent |-> <<>>]

\* the websocket once its connection is open
Opened == [open |-> TRUE, sent |-> <<>>]

\* wsc.send(message, data)
send(ws, message, data) == [ws EXCEPT !.sent = Append(@, <<message, data>>)]

ManagerInit ==
    /\ wsc = Closed
    /\ is_stopping = TRUE
    /\ jf_client = NoClient
    /\ main_pc = "constructed"
    /\ ws_pc = "idle"
    /\ event_name = "none"
    /\ timeout = 0
    /\ waits = <<>>
    /\ login_result = FALSE
    /\ listening = FALSE
    /\ _info = "None"
    /\ _sessions = [is_none |-> TRUE, value |-> <<>>]
    /\ _devices = <<>>
    /\ _new_devices_callbacks = <<>>
    /\ _stale_devices_callbacks = <<>>
    /\ _update_callbacks = <<>>
    /\ scheduled = <<>>
    /\ event_seq = 0
    /\ stop_pc = "idle"
    /\ hass_data = {}
    /\ forwarded = <<>>

ExpoIdle == /\ timeout_gen = expo(FALSE, 0)
            /\ yielded = <<>>

\* no update_check in progress
CheckIdle == /\ arg_existing = JellyfinDevice(IdleSession(HomeAssistant, FALSE))
             /\ arg_new = IdleSession(HomeAssistant, FALSE)
             /\ returned = <<>>

\* no transport command sent
CommandIdle == posted = <<>>

\* no URL normalised
UrlIdle == /\ config_url = [protocol |-> <<>>, host |-> <<>>, port |-> <<>>, path |-> <<>>]
           /\ server_url = <<>>

\* no library_items called
BrowseIdle == /\ browse_args = [media_content_type |-> <<>>, media_content_id |-> <<>>]
              /\ requests = <<>>
              /\ browsed = <<>>

CallIdle == CheckIdle /\ CommandIdle /\ UrlIdle /\ BrowseIdle

-----------------------------------------------------------------------------
(* connect(), start() and stop(), run on the event loop.  Each await of an  *)
(* executor job is a point where the websocket thread may run.              *)

\* connect(): is_logged_in = login(); ConfigEntryNotReady when it is false
Connect ==
    /\ main_pc = "constructed"
    /\ \E ok \in BOOLEAN :
          /\ jf_client' = client_factory(ok)
          /\ main_pc' = IF ok THEN "connected" ELSE "not_ready"
    /\ UNCHANGED <<is_stopping, ws_pc, event_name, timeout, waits, login_result,
                   listening, _info>>
    /\ UNCHANGED <<expoVars, registryVars, cacheVars, callVars, entryVars, connVars>>

\* mutant: the setup goes on after a connect() that raised
SetupEntryAnyway ==
    /\ main_pc \in {"connected", "not_ready"}
    /\ hass_data' = {"manager"} \cup {PLATFORMS[i] : i \in 1 .. Len(PLATFORMS)}
    /\ forwarded' = PLATFORMS
    /\ main_pc' = "setup"
    /\ UNCHANGED <<is_stopping, jf_client, ws_pc, event_name, timeout, waits,
                   login_result, listening, _info, stop_pc>>
    /\ UNCHANGED <<expoVars, registryVars, cacheVars, callVars, connVars>>

\* async_setup_entry after connect() has returned: the manager is stored,
\* the platforms are forwarded, stop_jellyfin is registered, start() is called
SetupEntry ==
    /\ main_pc = "connected"
    /\ hass_data' = {"manager"} \cup {PLATFORMS[i] : i \in 1 .. Len(PLATFORMS)}
    /\ forwarded' = PLATFORMS
    /\ main_pc' = "setup"
    /\ UNCHANGED <<is_stopping, jf_client, ws_pc, event_name, timeout, waits,
                   login_result, listening, _info, stop_pc>>
    /\ UNCHANGED <<expoVars, registryVars, cacheVars, callVars, connVars>>

\* start(): jf_client.callback = event; jf_client.callback_ws = event;
\*          await jf_client.start(True)
StartClient ==
    /\ main_pc = "setup"
    /\ jf_client' = [jf_client EXCEPT !.callback = TRUE, !.started = TRUE]
    /\ listening' = TRUE
    /\ main_pc' = "started"
    /\ UNCHANGED <<is_stopping, ws_pc, event_name, timeout, waits, login_result,
                   _info>>
    /\ UNCHANGED <<expoVars, registryVars, cacheVars, callVars, entryVars, connVars>>

\* start(): self.is_stopping = False; await ... _get, "System/Info"
StartFlag ==
    /\ main_pc = "started"
    /\ is_stopping' = FALSE
    /\ main_pc' = "await_info"
    /\ UNCHANGED <<jf_client, ws_pc, event_name, timeout, waits, login_result,
                   listening, _info>>
    /\ UNCHANGED <<expoVars, registryVars, cacheVars, callVars, entryVars, connVars>>

\* start(): self._info = ...; await ... get_sessions
StartInfo ==
    /\ main_pc = "await_info"
    /\ _info' = "System/Info"
    /\ main_pc' = "await_sessions"
    /\ UNCHANGED <<is_stopping, jf_client, ws_pc, event_name, timeout, waits,
                   login_result, listening>>
    /\ UNCHANGED <<expoVars, registryVars, cacheVars, callVars, entryVars, connVars>>

\* what get_sessions answers at start: no session, or the integration's own
RestSessions == {<<>>, <<IdleSession(HomeAssistant, FALSE)>>}

\* start(): self._sessions = self.clean_none_dict_values(...)
StartSessions ==
    /\ main_pc = "await_sessions"
    /\ \E value \in RestSessions : _sessions' = [is_none |-> FALSE, value |-> value]
    /\ main_pc' = "running"
    /\ UNCHANGED <<_devices, scheduled, event_seq>>
    /\ UNCHANGED <<is_stopping, jf_client, ws_pc, event_name, timeout, waits,
                   login_result, listening, _info>>
    /\ UNCHANGED <<expoVars, registryVars, callVars, entryVars, connVars>>

\* stop(): await jf_client.stop
StopClient ==
    /\ stop_pc = "idle"
    /\ main_pc \in {"started", "await_info", "await_sessions", "running"}
    /\ jf_client' = [jf_client EXCEPT !.started = FALSE]
    /\ wsc' = Closed
    /\ stop_pc' = "stopping"
    /\ UNCHANGED <<is_stopping, main_pc, ws_pc, event_name, timeout, waits,
                   login_result, listening, _info, hass_data, forwarded>>
    /\ UNCHANGED <<expoVars, registryVars, cacheVars, callVars>>

\* stop(): self.is_stopping = True
StopFlag ==
    /\ stop_pc = "stopping"
    /\ is_stopping' = TRUE
    /\ stop_pc' = "stopped"
    /\ UNCHANGED <<jf_client, main_pc, ws_pc, event_name, timeout, waits,
                   login_result, listening, _info, hass_data, forwarded>>
    /\ UNCHANGED <<expoVars, registryVars, cacheVars, callVars, connVars>>

\* JellyfinClientManager.is_available
is_available == ~is_stopping

\* JellyfinClientManager.info
info == IF is_stopping THEN "None" ELSE _info

-----------------------------------------------------------------------------
(* event(event_name, data) on the websocket thread: the reconnect loop.     *)
(* time.sleep and login block that thread, so the loop is a sequence of     *)
(* steps between which stop() may run.                                      *)

\* mutant: the subscription is left to a later event
RecvConnectLater ==
    /\ ws_pc = "idle"
    /\ jf_client.callback /\ jf_client.started
    /\ ~wsc.open
    /\ event_name' = "WebSocketConnect"
    /\ wsc' = Opened
    /\ UNCHANGED <<is_stopping, jf_client, main_pc, ws_pc, timeout, waits,
                   login_result, listening, _info>>
    /\ UNCHANGED <<expoVars, registryVars, cacheVars, callVars, entryVars>>

\* The websocket of the client held, started with the handler installed,
\* opens a connection; the first event of a connection is WebSocketConnect.
\* event_name == "WebSocketConnect":
\*     self.jf_client.wsc.send("SessionsStart", "0,1500")
RecvConnect ==
    /\ ws_pc = "idle"
    /\ jf_client.callback /\ jf_client.started
    /\ ~wsc.open
    /\ event_name' = "WebSocketConnect"
    /\ wsc' = send(Opened, "SessionsStart", "0,1500")
    /\ UNCHANGED <<is_stopping, jf_client, main_pc, ws_pc, timeout, waits,
                   login_result, listening, _info>>
    /\ UNCHANGED <<expoVars, registryVars, cacheVars, callVars, entryVars>>

\* event_name == "WebSocketDisconnect":  timeout_gen = self.expo(100)
RecvDisconnect ==
    /\ ws_pc = "idle"
    /\ listening
    /\ event_name' = "WebSocketDisconnect"
    /\ timeout_gen' = expo(TRUE, RECONNECT_MAX)
    /\ waits' = <<>>
    /\ login_result' = FALSE
    /\ ws_pc' = "while"
    /\ wsc' = Closed
    /\ UNCHANGED <<is_stopping, jf_client, main_pc, timeout, listening, _info, yielded,
                   registryVars, cacheVars, callVars, entryVars>>

\* while not self.is_stopping:  timeout = next(timeout_gen);  self.jf_client.stop()
LoopCheck ==
    /\ ws_pc = "while"
    /\ IF is_stopping
       THEN /\ ws_pc' = "idle"
            /\ UNCHANGED <<timeout, timeout_gen, jf_client, wsc>>
       ELSE /\ timeout' = ExpoYield(timeout_gen)
            /\ timeout_gen' = ExpoAdvance(timeout_gen)
            /\ jf_client' = [jf_client EXCEPT !.started = FALSE]
            /\ wsc' = Closed
            /\ ws_pc' = "sleep"
    /\ UNCHANGED <<is_stopping, main_pc, event_name, waits, login_result,
                   listening, _info, yielded,
                   registryVars, cacheVars, callVars, entryVars>>

\* time.sleep(timeout); the first MaxAttempts waits of an event are recorded
Sleep ==
    /\ ws_pc = "sleep"
    /\ waits' = IF Len(waits) < MaxAttempts THEN Append(waits, timeout) ELSE waits
    /\ ws_pc' = "login"
    /\ UNCHANGED <<is_stopping, jf_client, main_pc, event_name, timeout,
                   login_result, listening, _info>>
    /\ UNCHANGED <<expoVars, registryVars, cacheVars, callVars, entryVars, connVars>>

\* if self.login(): break
Login ==
    /\ ws_pc = "login"
    /\ \E ok \in BOOLEAN :
          /\ jf_client' = client_factory(ok)
          /\ login_result' = ok
          /\ ws_pc' = IF ok THEN "idle" ELSE "while"
    /\ wsc' = Closed
    /\ UNCHANGED <<is_stopping, main_pc, event_name, timeout, waits, listening,
                   _info>>
    /\ UNCHANGED <<expoVars, registryVars, cacheVars, callVars, entryVars>>

InitReconnect == ManagerInit /\ ExpoIdle /\ CallIdle

NextReconnect ==
    \/ Connect
    \/ SetupEntry
    \/ StartClient
    \/ StartFlag
    \/ StartInfo
    \/ StartSessions
    \/ StopClient
    \/ StopFlag
    \/ RecvConnect
    \/ RecvDisconnect
    \/ LoopCheck
    \/ Sleep
    \/ Login

SpecReconnect == InitReconnect /\ [][NextReconnect]_vars

\* The same, with the scheduling the code runs under: the websocket thread
\* goes on through its loop (time.sleep and login return), and the event
\* loop resumes a coroutine whose executor job has ended.
Progress ==
    /\ WF_vars(LoopCheck)
    /\ WF_vars(Sleep)
    /\ WF_vars(Login)
    /\ WF_vars(SetupEntry)
    /\ WF_vars(StartClient)
    /\ WF_vars(StartFlag)
    /\ WF_vars(StartInfo)
    /\ WF_vars(StartSessions)
    /\ WF_vars(StopFlag)

SpecLive == InitReconnect /\ [][NextReconnect]_vars /\ Progress

-----------------------------------------------------------------------------
(* C2: on a WebSocketDisconnect the loop repeats (stop the client, wait,    *)
(* log in); the handler returns from it only after a login that returned    *)
(* true or with is_stopping true; after a login that returned false the     *)
(* loop test, finding is_stopping false, starts another attempt with the    *)
(* next interval; the k-th wait of an event is min(2^(k-1), 100), starting  *)
(* at 1 for every event.                                                    *)

C2_LoopExit ==
    (ws_pc # "idle" /\ ws_pc' = "idle")
        => ((ws_pc = "login" /\ login_result') \/ (ws_pc = "while" /\ is_stopping))

C2_Waits ==
    \A k \in 1 .. Len(waits) : waits[k] = Min(Pow2(k - 1), 100)

C2_Retry ==
    (ws_pc = "while" /\ ws_pc' # "while" /\ ~is_stopping)
        => /\ ws_pc' = "sleep"
           /\ timeout' = Min(Pow2(Len(waits)), 100)
           /\ ~jf_client'.started

C2_Restart ==
    (event_name' = "WebSocketDisconnect" /\ ws_pc = "idle" /\ ws_pc' = "while")
        => (waits' = <<>> /\ timeout_gen'.n = 0)

C2_ReconnectLoop ==
    /\ []C2_Waits
    /\ [][C2_LoopExit /\ C2_Retry /\ C2_Restart]_vars

\* eight logins of one disconnect event have failed, after waits of
\* 1, 2, ..., 64, 100, and the loop is about to try again
C2_Witness ==
    /\ ws_pc = "while"
    /\ event_name = "WebSocketDisconnect"
    /\ ~login_result
    /\ ~is_stopping
    /\ Len(waits) = 8
    /\ waits[1] = 1
    /\ waits[8] = 100

-----------------------------------------------------------------------------
(* Specification of the generator alone *)

InitExpo ==
    /\ timeout_gen \in {expo(TRUE, m) : m \in ExpoCaps} \cup {expo(FALSE, 0)}
    /\ yielded = <<>>
    /\ ManagerInit
    /\ CallIdle

\* next(timeout_gen)
NextValue ==
    /\ Len(yielded) < MaxYields
    /\ yielded' = Append(yielded, ExpoYield(timeout_gen))
    /\ timeout_gen' = ExpoAdvance(timeout_gen)
    /\ UNCHANGED <<reconnectVars, registryVars, cacheVars, callVars, entryVars, connVars>>

NextExpo == NextValue

SpecExpo == InitExpo /\ [][NextExpo]_vars

-----------------------------------------------------------------------------
(* C1: expo(max_value) yields 1, 2, 4, ... while 2^n < max_value and        *)
(* max_value from then on; every value is <= max_value and the sequence is  *)
(* non-decreasing; for max_value = 100 it is 1 2 4 8 16 32 64 100 100 ...   *)

Waits100 == <<1, 2, 4, 8, 16, 32, 64, 100, 100, 100, 100, 100>>

C1_ExpoSequence ==
    timeout_gen.bounded =>
        \A i \in 1 .. Len(yielded) :
            /\ yielded[i] = IF Pow2(i - 1) < timeout_gen.max_value
                            THEN Pow2(i - 1) ELSE timeout_gen.max_value
            /\ yielded[i] <= timeout_gen.max_value
            /\ i > 1 => yielded[i - 1] <= yielded[i]
            /\ (timeout_gen.max_value = 100 /\ i <= Len(Waits100))
                   => yielded[i] = Waits100[i]

C1_Witness ==
    /\ timeout_gen.bounded
    /\ timeout_gen.max_value = 100
    /\ Len(yielded) >= 9
    /\ yielded[7] = 64
    /\ yielded[8] = 100
    /\ yielded[9] = 100

-----------------------------------------------------------------------------
(* The _devices dict: a sequence of [dev_name, device] in insertion order   *)

Has(devices, k) == \E i \in 1 .. Len(devices) : devices[i].dev_name = k

Get(devices, k) ==
    devices[CHOOSE i \in 1 .. Len(devices) : devices[i].dev_name = k].device

\* devices[k] = dev: in place for a key already present, appended otherwise
Put(devices, k, dev) ==
    IF Has(devices, k)
    THEN [i \in 1 .. Len(devices) |->
             IF devices[i].dev_name = k THEN [dev_name |-> k, device |-> dev]
             ELSE devices[i]]
    ELSE Append(devices, [dev_name |-> k, device |-> dev])

-----------------------------------------------------------------------------
(* The callbacks.  A call_soon(callback, msg) is recorded as a record; the  *)
(* msg 0 of the new-devices callbacks is written "0".                       *)

\* _do_new_devices_callback(0)
DoNewDevicesCallback ==
    [i \in 1 .. Len(_new_devices_callbacks) |->
        [callback |-> _new_devices_callbacks[i], msg |-> "0"]]

\* _do_stale_devices_callback(msg)
DoStaleDevicesCallback(msg) ==
    [i \in 1 .. Len(_stale_devices_callbacks) |->
        [callback |-> _stale_devices_callbacks[i], msg |-> msg]]

\* mutant: the device filter is dropped
DoUpdateCallbackAll(msg) ==
    [i \in 1 .. Len(_update_callbacks) |->
        [callback |-> _update_callbacks[i].callback, msg |-> msg]]

\* _do_update_callback(msg): the callbacks whose device == msg, in order
DoUpdateCallback(msg) ==
    LET F[i \in 0 .. Len(_update_callbacks)] ==
            IF i = 0 THEN <<>>
            ELSE IF _update_callbacks[i].device = msg
                 THEN Append(F[i - 1],
                             [callback |-> _update_callbacks[i].callback, msg |-> msg])
                 ELSE F[i - 1]
    IN  F[Len(_update_callbacks)]

-----------------------------------------------------------------------------
(* update_device_list *)

\* mutant: the update callbacks are scheduled before the new-devices callbacks
ExistingCallsSwapped(dev_update, do_update, dev_name) ==
    (IF do_update THEN DoUpdateCallback(dev_name) ELSE <<>>)
        \o (IF dev_update THEN DoNewDevicesCallback ELSE <<>>)

\* if dev_update: self._do_new_devices_callback(0)
\* if do_update: self._do_update_callback(dev_name)
ExistingCalls(dev_update, do_update, dev_name) ==
    (IF dev_update THEN DoNewDevicesCallback ELSE <<>>)
        \o (IF do_update THEN DoUpdateCallback(dev_name) ELSE <<>>)

\* the body of  for device in self._sessions
SessionStep(device, st) ==
    LET dev_name == DevName(device)
        active == Append(st.active_devices, dev_name)
    IN  IF ~Has(st.devices, dev_name) /\ device.DeviceId # CONF_CLIENT_ID
        THEN [st EXCEPT !.active_devices = active,
                        !.devices = Put(st.devices, dev_name, JellyfinDevice(device)),
                        !.new_devices = Append(st.new_devices, dev_name)]
        ELSE IF device.DeviceId # CONF_CLIENT_ID
        THEN LET existing == Get(st.devices, dev_name)
                 dev_update == st.dev_update \/ ~existing.is_active
                 do_update == update_check(existing, device)
             IN  [st EXCEPT !.active_devices = active,
                            !.devices = Put(st.devices, dev_name,
                                            [session |-> device, is_active |-> TRUE]),
                            !.dev_update = FALSE,
                            !.scheduled =
                                st.scheduled
                                \o ExistingCalls(dev_update, do_update, dev_name)]
        ELSE [st EXCEPT !.active_devices = active]

RECURSIVE SessionLoop(_, _, _)
SessionLoop(sessions, i, st) ==
    IF i > Len(sessions) THEN st
    ELSE SessionLoop(sessions, i + 1, SessionStep(sessions[i], st))

\* mutant: a device that becomes inactive loses what it was playing
StaleStepForget(i, st) ==
    LET dev_id == st.devices[i].dev_name
        dev == st.devices[i].device
    IN  IF (\A j \in 1 .. Len(st.active_devices) : st.active_devices[j] # dev_id)
           /\ dev.is_active
        THEN [st EXCEPT !.devices =
                            Put(st.devices, dev_id,
                                [session |-> IdleSession(<<dev.session.DeviceId,
                                                           dev.session.Client>>, FALSE),
                                 is_active |-> FALSE]),
                        !.scheduled = st.scheduled \o DoUpdateCallback(dev_id)
                                          \o DoStaleDevicesCallback(dev_id)]
        ELSE st

\* mutant: a device missing from the list stays active
StaleStepKeep(i, st) == st

\* mutant: the stale-devices callbacks are scheduled before the update callbacks
StaleStepSwapped(i, st) ==
    LET dev_id == st.devices[i].dev_name
        dev == st.devices[i].device
    IN  IF (\A j \in 1 .. Len(st.active_devices) : st.active_devices[j] # dev_id)
           /\ dev.is_active
        THEN [st EXCEPT !.devices = Put(st.devices, dev_id,
                                        [dev EXCEPT !.is_active = FALSE]),
                        !.scheduled = st.scheduled \o DoStaleDevicesCallback(dev_id)
                                          \o DoUpdateCallback(dev_id)]
        ELSE st

\* the body of  for dev_id in self._devices
StaleStep(i, st) ==
    LET dev_id == st.devices[i].dev_name
        dev == st.devices[i].device
    IN  IF (\A j \in 1 .. Len(st.active_devices) : st.active_devices[j] # dev_id)
           /\ dev.is_active
        THEN [st EXCEPT !.devices = Put(st.devices, dev_id,
                                        [dev EXCEPT !.is_active = FALSE]),
                        !.scheduled = st.scheduled \o DoUpdateCallback(dev_id)
                                          \o DoStaleDevicesCallback(dev_id)]
        ELSE st

RECURSIVE StaleLoop(_, _)
StaleLoop(i, st) ==
    IF i > Len(st.devices) THEN st ELSE StaleLoop(i + 1, StaleStep(i, st))

\* mutant: the new-devices callbacks are scheduled ahead of the other calls
NewDevicesStepFirst(st) ==
    IF st.new_devices # <<>>
    THEN [st EXCEPT !.scheduled = DoNewDevicesCallback \o st.scheduled]
    ELSE st

\* if new_devices: self._do_new_devices_callback(0)
NewDevicesStep(st) ==
    IF st.new_devices # <<>>
    THEN [st EXCEPT !.scheduled = st.scheduled \o DoNewDevicesCallback]
    ELSE st

\* update_device_list for self._sessions = sessions: the devices and the
\* scheduled calls it ends with
UpdateDeviceList(sessions) ==
    NewDevicesStep(StaleLoop(1, SessionLoop(sessions, 1,
        [devices |-> _devices, new_devices |-> <<>>, active_devices |-> <<>>,
         dev_update |-> FALSE, scheduled |-> <<>>])))

-----------------------------------------------------------------------------
(* The Sessions event and the registration calls *)

\* the sessions the server reports in the events followed: every client idle
\* or playing, the integration's own session idle
SessionValues ==
    {IdleSession(e, FALSE) : e \in Endpoints}
        \cup {PlayingSession(e, FALSE, PlainItem) : e \in Endpoints \ {HomeAssistant}}

SessionLists == UNION {[1 .. n -> SessionValues] : n \in 0 .. MaxSessions}

\* the keys callbacks are registered for: those of the other clients
DeviceKeys == {DevName(s) : s \in {x \in SessionValues : x.DeviceId # CONF_CLIENT_ID}}

NewCallbacks == {"on_new"}
StaleCallbacks == {"on_stale"}
UpdateCallbacks == {"on_update"}

\* A Sessions message arrives on an open connection, after the event that
\* opened it.
\* event_name == "Sessions":
\*     self._sessions = self.clean_none_dict_values(data)["value"]
\*     self.update_device_list()
SessionsEvent ==
    /\ ws_pc = "idle"
    /\ listening
    /\ wsc.open
    /\ \E value \in SessionLists :
          \E r \in {UpdateDeviceList(value)} :
              /\ _sessions' = [is_none |-> FALSE, value |-> value]
              /\ _devices' = r.devices
              /\ scheduled' = r.scheduled
    /\ event_name' = "Sessions"
    /\ event_seq' = 1 - event_seq
    /\ UNCHANGED <<is_stopping, jf_client, main_pc, ws_pc, timeout, waits,
                   login_result, listening, _info>>
    /\ UNCHANGED <<expoVars, registryVars, callVars, entryVars, connVars>>

\* add_new_devices_callback(callback)
add_new_devices_callback ==
    /\ Len(_new_devices_callbacks) < MaxCallbacks
    /\ \E callback \in NewCallbacks :
          _new_devices_callbacks' = Append(_new_devices_callbacks, callback)
    /\ UNCHANGED <<_stale_devices_callbacks, _update_callbacks>>
    /\ UNCHANGED <<expoVars, reconnectVars, cacheVars, callVars, entryVars, connVars>>

\* add_stale_devices_callback(callback)
add_stale_devices_callback ==
    /\ Len(_stale_devices_callbacks) < MaxCallbacks
    /\ \E callback \in StaleCallbacks :
          _stale_devices_callbacks' = Append(_stale_devices_callbacks, callback)
    /\ UNCHANGED <<_new_devices_callbacks, _update_callbacks>>
    /\ UNCHANGED <<expoVars, reconnectVars, cacheVars, callVars, entryVars, connVars>>

\* add_update_callback(callback, device)
add_update_callback ==
    /\ Len(_update_callbacks) < MaxUpdateCallbacks
    /\ \E callback \in UpdateCallbacks, device \in DeviceKeys :
          _update_callbacks' =
              Append(_update_callbacks, [callback |-> callback, device |-> device])
    /\ UNCHANGED <<_new_devices_callbacks, _stale_devices_callbacks>>
    /\ UNCHANGED <<expoVars, reconnectVars, cacheVars, callVars, entryVars, connVars>>

\* list.remove(x): the first occurrence is removed
RemoveFirst(seq, x) ==
    LET i == CHOOSE j \in 1 .. Len(seq) :
                 seq[j] = x /\ \A h \in 1 .. j - 1 : seq[h] # x
    IN  SubSeq(seq, 1, i - 1) \o SubSeq(seq, i + 1, Len(seq))

\* remove_update_callback(callback, device)
remove_update_callback ==
    /\ \E callback \in UpdateCallbacks, device \in DeviceKeys :
          LET x == [callback |-> callback, device |-> device]
          IN  /\ \E j \in 1 .. Len(_update_callbacks) : _update_callbacks[j] = x
              /\ _update_callbacks' = RemoveFirst(_update_callbacks, x)
    /\ UNCHANGED <<_new_devices_callbacks, _stale_devices_callbacks>>
    /\ UNCHANGED <<expoVars, reconnectVars, cacheVars, callVars, entryVars, connVars>>

-----------------------------------------------------------------------------
(* Specification of the device cache: the manager is connected and started, *)
(* then any sequence of Sessions events is handled.                         *)

Init == ManagerInit /\ ExpoIdle /\ CallIdle

Next ==
    \/ Connect
    \/ SetupEntry
    \/ StartClient
    \/ StartFlag
    \/ StartInfo
    \/ StartSessions
    \/ RecvConnect
    \/ SessionsEvent

Spec == Init /\ [][Next]_vars

\* The same with the reconnect loop: connections open and are lost while
\* Sessions events are handled.
NextConnect ==
    \/ Next
    \/ RecvDisconnect
    \/ LoopCheck
    \/ Sleep
    \/ Login

SpecConnect == Init /\ [][NextConnect]_vars

-----------------------------------------------------------------------------
(* Specification of one Sessions event: the manager is running, the cache   *)
(* is in any state a sequence of Sessions events leaves it in, callbacks    *)
(* are registered and removed, and one more Sessions event is handled.      *)

\* the manager after connect() and start()
Running ==
    /\ wsc = send(Opened, "SessionsStart", "0,1500")
    /\ is_stopping = FALSE
    /\ jf_client = [exists |-> TRUE, callback |-> TRUE, started |-> TRUE,
                    authenticated |-> TRUE]
    /\ main_pc = "running"
    /\ ws_pc = "idle"
    /\ event_name = "none"
    /\ timeout = 0
    /\ waits = <<>>
    /\ login_result = FALSE
    /\ listening = TRUE
    /\ _info = "System/Info"
    /\ stop_pc = "idle"
    /\ hass_data = {"manager"} \cup {PLATFORMS[i] : i \in 1 .. Len(PLATFORMS)}
    /\ forwarded = PLATFORMS

\* the _devices a sequence of Sessions events can leave: the devices of
\* distinct keys, none the integration's own, in any order, each active or not
CacheEntries ==
    {[dev_name |-> DevName(s), device |-> [session |-> s, is_active |-> a]] :
        s \in {x \in SessionValues : x.DeviceId # CONF_CLIENT_ID}, a \in BOOLEAN}

Caches ==
    {c \in UNION {[1 .. n -> CacheEntries] : n \in 0 .. Cardinality(DeviceKeys)} :
        \A i, j \in 1 .. Len(c) : i # j => c[i].dev_name # c[j].dev_name}

\* the sessions of the active devices, the list of the event that left them so
ActiveSessions(devices) ==
    LET F[i \in 0 .. Len(devices)] ==
            IF i = 0 THEN <<>>
            ELSE IF devices[i].device.is_active
                 THEN Append(F[i - 1], devices[i].device.session)
                 ELSE F[i - 1]
    IN  F[Len(devices)]

InitUpdate ==
    /\ Running
    /\ ExpoIdle
    /\ CallIdle
    /\ _devices \in Caches
    /\ _sessions = [is_none |-> FALSE, value |-> ActiveSessions(_devices)]
    /\ _new_devices_callbacks = <<>>
    /\ _stale_devices_callbacks = <<>>
    /\ _update_callbacks = <<>>
    /\ scheduled = <<>>
    /\ event_seq = 0

Registering == event_name # "Sessions"

OneSessions == Registering /\ SessionsEvent

NextUpdate ==
    \/ Registering /\ add_new_devices_callback
    \/ Registering /\ add_stale_devices_callback
    \/ Registering /\ add_update_callback
    \/ Registering /\ remove_update_callback
    \/ OneSessions

SpecUpdate == InitUpdate /\ [][NextUpdate]_vars

-----------------------------------------------------------------------------
(* Specification of update_check alone: called for any cached device of a   *)
(* client and any session that client can report.                           *)

CheckSessions == {s \in AllSessions : s.DeviceId = "d1"}

InitCheck ==
    /\ ManagerInit
    /\ ExpoIdle
    /\ arg_existing \in {[session |-> s, is_active |-> a] :
                        s \in CheckSessions, a \in BOOLEAN}
    /\ arg_new \in CheckSessions
    /\ returned = <<>>
    /\ CommandIdle
    /\ UrlIdle
    /\ BrowseIdle

\* do_update = self.update_check(arg_existing, arg_new)
UpdateCheck ==
    /\ returned = <<>>
    /\ returned' = <<update_check(arg_existing, arg_new)>>
    /\ UNCHANGED <<arg_existing, arg_new, commandVars, urlVars, browseVars, entryVars, connVars>>
    /\ UNCHANGED <<expoVars, reconnectVars, registryVars, cacheVars>>

NextCheck == UpdateCheck

SpecCheck == InitCheck /\ [][NextCheck]_vars

-----------------------------------------------------------------------------
(* The transport commands of a device.  A position is a number of seconds,  *)
(* num / den with den > 0; a post_session call is recorded with the method  *)
(* that made it.                                                            *)

\* the sessions applied to the device: with one of two Ids, or without Id
CommandSessions ==
    LET s == IdleSession(<<"d1", "web">>, FALSE)
    IN  {[s EXCEPT !.Id = "s1"], [s EXCEPT !.Id = "s2"],
         [k \in DOMAIN s \ {"Id"} |-> s[k]]}

Positions ==
    {[num |-> n, den |-> d] : n \in -MaxPos .. MaxPos, d \in {1, 4, 2 * TicksPerSecond}}

\* JellyfinDevice.session_id: the Id of the session held, None on KeyError
session_id(dev) ==
    IF "Id" \in DOMAIN dev.session THEN <<dev.session.Id>> ELSE <<>>

\* mutant: the quotient is rounded down
SeekTicksFloor(pos) == (pos.num * TicksPerSecond) \div pos.den

\* int(pos * 10000000): the quotient truncated toward zero
SeekTicks(pos) ==
    LET a == pos.num * TicksPerSecond
    IN  IF a >= 0 THEN a \div pos.den ELSE -((-a) \div pos.den)

\* JellyfinClientManager.set_playstate(session_id, state, params)
post_session(sid, state, params) ==
    [session_id |-> sid, path |-> "Playing/" \o state, params |-> params]

\* JellyfinDevice.set_playstate(state, pos)
set_playstate(dev, state, pos) ==
    post_session(session_id(dev), state,
                 IF state = "Seek"
                 THEN [SeekPositionTicks |-> SeekTicks(pos), static |-> "true"]
                 ELSE <<>>)

\* pos = 0, the default of set_playstate
NoPos == [num |-> 0, den |-> 1]

\* a command method called on the device: the call it makes is recorded
Command(method, args, call) ==
    /\ Len(posted) < MaxCommands
    /\ posted' = Append(posted, [method |-> method, args |-> args, call |-> call])
    /\ UNCHANGED <<expoVars, reconnectVars, registryVars, cacheVars, checkVars, urlVars,
                   browseVars, entryVars, connVars>>

media_play == Command("media_play", <<>>, set_playstate(arg_existing, "Unpause", NoPos))

media_pause == Command("media_pause", <<>>, set_playstate(arg_existing, "Pause", NoPos))

media_stop == Command("media_stop", <<>>, set_playstate(arg_existing, "Stop", NoPos))

media_next == Command("media_next", <<>>, set_playstate(arg_existing, "NextTrack", NoPos))

media_previous ==
    Command("media_previous", <<>>, set_playstate(arg_existing, "PreviousTrack", NoPos))

media_seek ==
    \E position \in Positions :
        Command("media_seek", <<position>>, set_playstate(arg_existing, "Seek", position))

\* JellyfinDevice.update_data(session)
update_data ==
    /\ \E session \in CommandSessions :
          arg_existing' = [arg_existing EXCEPT !.session = session]
    /\ UNCHANGED <<arg_new, returned, posted, urlVars, browseVars, entryVars, connVars>>
    /\ UNCHANGED <<expoVars, reconnectVars, registryVars, cacheVars>>

InitCommand ==
    /\ Running
    /\ ExpoIdle
    /\ _sessions = [is_none |-> FALSE, value |-> <<>>]
    /\ _devices = <<>>
    /\ _new_devices_callbacks = <<>>
    /\ _stale_devices_callbacks = <<>>
    /\ _update_callbacks = <<>>
    /\ scheduled = <<>>
    /\ event_seq = 0
    /\ arg_existing \in {JellyfinDevice(s) : s \in CommandSessions}
    /\ arg_new = IdleSession(HomeAssistant, FALSE)
    /\ returned = <<>>
    /\ CommandIdle
    /\ UrlIdle
    /\ BrowseIdle

NextCommand ==
    \/ update_data
    \/ media_play
    \/ media_pause
    \/ media_stop
    \/ media_next
    \/ media_previous
    \/ media_seek

SpecCommand == InitCommand /\ [][NextCommand]_vars

-----------------------------------------------------------------------------
(* login(): the normalisation of the configured URL.  A URL is the sequence *)
(* of its characters.                                                       *)

HTTP == <<"h", "t", "t", "p", ":", "/", "/">>
HTTPS == <<"h", "t", "t", "p", "s", ":", "/", "/">>

Digits == {"0", "1", "2", "3", "4", "5", "6", "7", "8", "9"}

IsPrefix(p, u) == Len(p) <= Len(u) /\ SubSeq(u, 1, Len(p)) = p

\* length of the longest prefix of u made of characters of the set cs
RECURSIVE Run(_, _)
Run(u, cs) ==
    IF u # <<>> /\ u[1] \in cs THEN 1 + Run(Tail(u), cs) ELSE 0

\* the characters a URL is written with
UrlChars == {"a", "8", ":", "/"} \cup {HTTPS[i] : i \in 1 .. Len(HTTPS)}

\* PATH_REGEX.match(u).groups() for ^(https?://)?([^/:]+)(:[0-9]+)?(/.*)?$
\* Every group is greedy and no shorter choice can match: a URL that
\* starts with a protocol matches only with it, host is the longest run
\* without '/' and ':', port the ':' with the longest run of digits.
PATH_REGEX(u) ==
    LET protocol == IF IsPrefix(HTTPS, u) THEN HTTPS
                    ELSE IF IsPrefix(HTTP, u) THEN HTTP ELSE <<>>
        r1 == SubSeq(u, Len(protocol) + 1, Len(u))
        h == Run(r1, UrlChars \ {"/", ":"})
        r2 == SubSeq(r1, h + 1, Len(r1))
        d == IF r2 # <<>> /\ r2[1] = ":" THEN Run(Tail(r2), Digits) ELSE 0
        port == IF d > 0 THEN SubSeq(r2, 1, d + 1) ELSE <<>>
        path == SubSeq(r2, Len(port) + 1, Len(r2))
    IN  IF h > 0 /\ (path = <<>> \/ path[1] = "/")
        THEN [matched |-> TRUE, protocol |-> protocol, host |-> SubSeq(r1, 1, h),
              port |-> port, path |-> path]
        ELSE [matched |-> FALSE]

\* mutant: every trailing '/' is removed
StripSlashAll(u) == SubSeq(u, 1, Len(u) - Run([i \in 1 .. Len(u) |-> u[Len(u) + 1 - i]], {"/"}))

\* if self.server_url.endswith("/"): self.server_url = self.server_url[:-1]
StripSlash(u) ==
    IF u # <<>> /\ u[Len(u)] = "/" THEN SubSeq(u, 1, Len(u) - 1) ELSE u

\* the server_url login() computes from the configured URL u; the match
\* of a URL the pattern does not match is None, and .groups() raises
NormaliseUrl(u) ==
    LET m == PATH_REGEX(StripSlash(u))
    IN  IF ~m.matched THEN [raised |-> TRUE, url |-> <<>>]
        ELSE LET protocol == IF m.protocol = <<>> THEN HTTP ELSE m.protocol
                 port == IF protocol = HTTP /\ m.port = <<>>
                         THEN <<":", "8", "0", "9", "6">>
                         ELSE IF protocol = HTTPS /\ m.port = <<>>
                         THEN <<":", "4", "4", "3">>
                         ELSE m.port
             IN  [raised |-> FALSE, url |-> protocol \o m.host \o port \o m.path]

\* sequences over cs of lengths lo .. hi
Words(cs, lo, hi) == UNION {[1 .. n -> cs] : n \in lo .. hi}

\* the configured URLs: protocol or none, a host, a port or none or a ':'
\* without digits, a path or none
ConfigUrls ==
    [protocol : {<<>>, HTTP, HTTPS},
     host : Words({"a", "8"}, 1, MaxHost),
     port : {<<>>, <<":", "8">>, <<":", "8", "0">>, <<":">>},
     path : {<<>>} \cup {<<"/">> \o w : w \in Words({"a", "/"}, 0, MaxPath - 1)}]

\* the text of a configured URL
UrlText(c) == c.protocol \o c.host \o c.port \o c.path

InitUrl ==
    /\ ManagerInit
    /\ ExpoIdle
    /\ CheckIdle
    /\ CommandIdle
    /\ config_url \in ConfigUrls
    /\ server_url = <<>>
    /\ BrowseIdle

\* login(): self.server_url = ... up to the join
LoginUrl ==
    /\ server_url = <<>>
    /\ server_url' = <<NormaliseUrl(UrlText(config_url))>>
    /\ UNCHANGED <<config_url, checkVars, commandVars, browseVars, entryVars, connVars>>
    /\ UNCHANGED <<expoVars, reconnectVars, registryVars, cacheVars>>

NextUrl == LoginUrl

SpecUrl == InitUrl /\ [][NextUrl]_vars

-----------------------------------------------------------------------------
(* library_items of media_browser.py.  None is written <<>> and a value v   *)
(* that may be None <<v>>.  The two attributes the code assigns with a      *)
(* trailing comma hold either a value or the 1-tuple of a value.            *)

MEDIA_CLASS_ALBUM == "album"
MEDIA_CLASS_ARTIST == "artist"
MEDIA_CLASS_DIRECTORY == "directory"
MEDIA_CLASS_EPISODE == "episode"
MEDIA_CLASS_MOVIE == "movie"
MEDIA_CLASS_SEASON == "season"
MEDIA_CLASS_TRACK == "track"
MEDIA_CLASS_TV_SHOW == "tv_show"
MEDIA_TYPE_ALBUM == "album"
MEDIA_TYPE_ARTIST == "artist"
MEDIA_TYPE_EPISODE == "episode"
MEDIA_TYPE_MOVIE == "movie"
MEDIA_TYPE_PLAYLIST == "playlist"
MEDIA_TYPE_SEASON == "season"
MEDIA_TYPE_TRACK == "track"
MEDIA_TYPE_TVSHOW == "tvshow"

\* the keys of the three switcher dicts
MappedTypes ==
    {"Movie", "Series", "Season", "Episode", "Music", "Audio", "BoxSet", "Folder",
     "CollectionFolder", "Playlist", "MusicArtist", "MusicAlbum"}

Type2Mediatype(type) ==
    CASE type = "Movie" -> MEDIA_TYPE_MOVIE
      [] type = "Series" -> MEDIA_TYPE_TVSHOW
      [] type = "Season" -> MEDIA_TYPE_SEASON
      [] type = "Episode" -> MEDIA_TYPE_EPISODE
      [] type = "Music" -> MEDIA_TYPE_ALBUM
      [] type = "Audio" -> MEDIA_TYPE_TRACK
      [] type = "BoxSet" -> MEDIA_CLASS_DIRECTORY
      [] type = "Folder" -> MEDIA_CLASS_DIRECTORY
      [] type = "CollectionFolder" -> MEDIA_CLASS_DIRECTORY
      [] type = "Playlist" -> MEDIA_CLASS_DIRECTORY
      [] type = "MusicArtist" -> MEDIA_TYPE_ARTIST
      [] type = "MusicAlbum" -> MEDIA_TYPE_ALBUM

Type2Mediaclass(type) ==
    CASE type = "Movie" -> MEDIA_CLASS_MOVIE
      [] type = "Series" -> MEDIA_CLASS_TV_SHOW
      [] type = "Season" -> MEDIA_CLASS_SEASON
      [] type = "Episode" -> MEDIA_CLASS_EPISODE
      [] type = "Music" -> MEDIA_CLASS_DIRECTORY
      [] type = "BoxSet" -> MEDIA_CLASS_DIRECTORY
      [] type = "Folder" -> MEDIA_CLASS_DIRECTORY
      [] type = "CollectionFolder" -> MEDIA_CLASS_DIRECTORY
      [] type = "Playlist" -> MEDIA_CLASS_DIRECTORY
      [] type = "MusicArtist" -> MEDIA_CLASS_ARTIST
      [] type = "MusicAlbum" -> MEDIA_CLASS_ALBUM
      [] type = "Audio" -> MEDIA_CLASS_TRACK

IsPlayable(type) ==
    type \in {"Movie", "Series", "Season", "Episode", "BoxSet", "Playlist",
              "MusicArtist", "MusicAlbum", "Audio"}

\* media_content_type values of the elif branch of library_items
ContainerTypes ==
    {MEDIA_CLASS_DIRECTORY, MEDIA_TYPE_ARTIST, MEDIA_TYPE_ALBUM, MEDIA_TYPE_PLAYLIST,
     MEDIA_TYPE_TVSHOW, MEDIA_TYPE_SEASON}

\* a value, and the 1-tuple  value,
Plain(v) == [tuple |-> FALSE, value |-> v]
Tuple1(v) == [tuple |-> TRUE, value |-> v]

BrowseMedia(media_class, media_content_id, media_content_type, title, can_play, can_expand, thumbnail, children) ==
    [media_class |-> media_class, media_content_id |-> media_content_id,
     media_content_type |-> media_content_type, title |-> title,
     can_play |-> can_play, can_expand |-> can_expand, thumbnail |-> thumbnail,
     children |-> children]

\* await device.get_artwork_url(media_id)
get_artwork_url(media_id) == <<"artwork", media_id>>

\* the BrowseMedia appended for an item of a root or container node
Child(item) ==
    IF item.IsFolder
    THEN BrowseMedia(Type2Mediaclass(item.Type), Plain(item.Id),
                     Type2Mediatype(item.Type), item.Name,
                     Plain(IsPlayable(item.Type)), TRUE,
                     get_artwork_url(item.Id), <<>>)
    ELSE BrowseMedia(Type2Mediaclass(item.Type), Plain(item.Id),
                     Type2Mediatype(item.Type), item.Name,
                     Plain(IsPlayable(item.Type)), FALSE,
                     get_artwork_url(item.Id), <<>>)

\* the else branch of the loop:  library_info.media_content_id = item["Id"],
\* and  library_info.can_play=IsPlayable(item["Type"]),  assign 1-tuples
Describe(node, item) ==
    [node EXCEPT !.title = item.Name,
                 !.media_content_id = Tuple1(item.Id),
                 !.media_content_type = Type2Mediatype(item.Type),
                 !.media_class = Type2Mediaclass(item.Type),
                 !.can_expand = FALSE,
                 !.can_play = Tuple1(IsPlayable(item.Type))]

IsRoot(media_content_type) == media_content_type \in {<<>>, <<"library">>}

IsContainer(media_content_type) ==
    media_content_type # <<>> /\ media_content_type[1] \in ContainerTypes

\* the query of the get_items request
Query(media_content_type, media_content_id) ==
    IF IsRoot(media_content_type) THEN <<>>
    ELSE IF IsContainer(media_content_type)
    THEN <<[ParentId |-> media_content_id[1]]>>
    ELSE <<[Id |-> media_content_id[1]]>>

\* library_info as it is before the get_items request
LibraryInfo(media_content_type, media_content_id, parent_item) ==
    IF IsRoot(media_content_type)
    THEN BrowseMedia(MEDIA_CLASS_DIRECTORY, Plain("library"), "library",
                     "Media Library", Plain(FALSE), TRUE, <<>>, <<>>)
    ELSE IF IsContainer(media_content_type)
    THEN BrowseMedia(media_content_type[1], Plain(media_content_id[1]),
                     media_content_type[1], parent_item.Name,
                     Plain(IsPlayable(parent_item.Type)), TRUE,
                     get_artwork_url(media_content_id[1]), <<>>)
    ELSE BrowseMedia(MEDIA_CLASS_DIRECTORY, Plain(media_content_id[1]),
                     media_content_type[1], "", Plain(TRUE), FALSE,
                     get_artwork_url(media_content_id[1]), <<>>)

\* for item in items, in the root and container case
RECURSIVE Children(_)
Children(items) ==
    IF items = <<>> THEN <<>> ELSE <<Child(items[1])>> \o Children(Tail(items))

\* mutant: the items are requested twice
RequestsTwice(media_content_type, media_content_id, parent_item, items) ==
    LET get_items == [api |-> "get_items",
                      query |-> Query(media_content_type, media_content_id),
                      response |-> items]
    IN  <<get_items, get_items>>

\* the requests library_items makes: get_item for a container, then one
\* get_items unless IsPlayable(parent_item["Type"]) has raised KeyError
Requests(media_content_type, media_content_id, parent_item, items) ==
    LET get_items == [api |-> "get_items",
                      query |-> Query(media_content_type, media_content_id),
                      response |-> items]
    IN  IF IsContainer(media_content_type)
        THEN <<[api |-> "get_item", id |-> media_content_id[1],
                response |-> parent_item]>>
                 \o (IF parent_item.Type \in MappedTypes THEN <<get_items>> ELSE <<>>)
        ELSE <<get_items>>

\* library_items(device, media_content_type, media_content_id), for the
\* answers parent_item of get_item and items of get_items: the node it
\* returns, or the KeyError of a Type the switchers do not have
library_items(media_content_type, media_content_id, parent_item, items) ==
    LET library_info == LibraryInfo(media_content_type, media_content_id, parent_item)
    IN  IF IsContainer(media_content_type) /\ parent_item.Type \notin MappedTypes
        THEN [raised |-> TRUE]
        ELSE IF IsRoot(media_content_type) \/ IsContainer(media_content_type)
        THEN IF \E i \in 1 .. Len(items) : items[i].Type \notin MappedTypes
             THEN [raised |-> TRUE]
             ELSE [raised |-> FALSE,
                   node |-> [library_info EXCEPT !.children = Children(items)]]
        ELSE IF items = <<>>
        THEN [raised |-> FALSE, node |-> library_info]
        ELSE IF items[1].Type \notin MappedTypes
        THEN [raised |-> TRUE]
        ELSE [raised |-> FALSE, node |-> Describe(library_info, items[1])]

\* the Types of the items the server answers with; Video is not a key of
\* the switchers
ItemTypes == {"Movie", "Folder", "Music", "Video"}

ServerItems ==
    {[Id |-> id, Name |-> "name of " \o id, Type |-> t, IsFolder |-> f] :
        id \in {"i1", "i2"}, t \in ItemTypes, f \in BOOLEAN}

ItemLists == UNION {[1 .. n -> ServerItems] : n \in 0 .. MaxItems}

ParentItems ==
    {[Id |-> "i0", Name |-> "name of i0", Type |-> t, IsFolder |-> TRUE] : t \in ItemTypes}

BrowseCalls ==
    {[media_content_type |-> t, media_content_id |-> <<>>] : t \in {<<>>, <<"library">>}}
        \cup {[media_content_type |-> <<t>>, media_content_id |-> <<"i0">>] :
                 t \in ContainerTypes \cup {MEDIA_TYPE_MOVIE, MEDIA_TYPE_TRACK}}

InitBrowse ==
    /\ ManagerInit
    /\ ExpoIdle
    /\ CheckIdle
    /\ CommandIdle
    /\ UrlIdle
    /\ browse_args \in BrowseCalls
    /\ requests = <<>>
    /\ browsed = <<>>

\* await library_items(device, media_content_type, media_content_id)
LibraryItems ==
    /\ browsed = <<>>
    /\ \E parent_item \in ParentItems, items \in ItemLists :
          /\ requests' = Requests(browse_args.media_content_type,
                                  browse_args.media_content_id, parent_item, items)
          /\ browsed' = <<library_items(browse_args.media_content_type,
                                        browse_args.media_content_id, parent_item, items)>>
    /\ UNCHANGED <<browse_args, checkVars, commandVars, urlVars, entryVars, connVars>>
    /\ UNCHANGED <<expoVars, reconnectVars, registryVars, cacheVars>>

NextBrowse == LibraryItems

SpecBrowse == InitBrowse /\ [][NextBrowse]_vars

-----------------------------------------------------------------------------
(* C4: a device's state is one of Off, Idle, Paused, Playing: Off exactly   *)
(* when the device is not active; for an active device Idle exactly when    *)
(* the session has no NowPlayingItem, Paused when it has one and            *)
(* PlayState.IsPaused is true, Playing when it has one and IsPaused is      *)
(* false.                                                                   *)

HasItem(session) == "NowPlayingItem" \in DOMAIN session

C4_DeviceState ==
    LET st == State(arg_existing)
        item == HasItem(arg_existing.session)
        paused == arg_existing.session.PlayState.IsPaused
    IN  /\ st \in {"Off", "Idle", "Paused", "Playing"}
        /\ st = "Off" <=> ~arg_existing.is_active
        /\ arg_existing.is_active =>
              /\ st = "Idle" <=> ~item
              /\ st = "Paused" <=> (item /\ paused)
              /\ st = "Playing" <=> (item /\ ~paused)

C4_Witness ==
    /\ arg_existing.is_active
    /\ HasItem(arg_existing.session)
    /\ arg_existing.session.PlayState.IsPaused
    /\ State(arg_existing) = "Paused"
    /\ returned # <<>>

\* the state of the incoming session, as the claims name it
SessionState(session) ==
    IF HasItem(session)
    THEN IF session.PlayState.IsPaused THEN "Paused" ELSE "Playing"
    ELSE "Idle"

(* C5: update_check returns True on any state transition, that is whenever  *)
(* the state of the cached device differs from the state of the incoming    *)
(* session.                                                                 *)
C5_AnyTransition ==
    (returned # <<>> /\ State(arg_existing) # SessionState(arg_new)) => returned[1]

(* C6: update_check returns True whenever the state of the cached device or *)
(* the state of the incoming session is Playing.                            *)
C6_EitherPlaying ==
    (returned # <<>> /\ (State(arg_existing) = "Playing" \/ SessionState(arg_new) = "Playing"))
        => returned[1]

-----------------------------------------------------------------------------
(* What the claims about update_device_list speak of *)

\* a step that handles a Sessions event
UpdateStep == event_seq' # event_seq

\* the keys of the sessions of a list
ListKeys(list) == {DevName(list[j]) : j \in 1 .. Len(list)}

\* the calls scheduled with msg = k
CallsFor(sched, k) == SelectSeq(sched, LAMBDA c : c.msg = k)

IsNewCall(c) == c.callback \in NewCallbacks
IsUpdateCall(c) == c.callback \in UpdateCallbacks
IsStaleCall(c) == c.callback \in StaleCallbacks

\* one call per update callback registered for k, in registration order
ExpectedUpdateCalls(regs, k) ==
    LET sel == SelectSeq(regs, LAMBDA r : r.device = k)
    IN  [i \in 1 .. Len(sel) |-> [callback |-> sel[i].callback, msg |-> k]]

\* one call per registered callback, in registration order
ExpectedCalls(cbs, msg) == [i \in 1 .. Len(cbs) |-> [callback |-> cbs[i], msg |-> msg]]

(* C3: after an update_device_list for a session list, each cached device   *)
(* is active if and only if its key is the key of a session of that list.   *)
C3_ActiveIffListed ==
    [][UpdateStep =>
          \A i \in 1 .. Len(_devices') :
              _devices'[i].device.is_active
                  <=> _devices'[i].dev_name \in ListKeys(_sessions'.value)]_vars

\* an update has left one device active and another one inactive
C3_Witness ==
    /\ event_name = "Sessions"
    /\ Len(_devices) = 2
    /\ _devices[1].device.is_active
    /\ ~_devices[2].device.is_active
    /\ Len(_sessions.value) = 2

(* C7: a cached device absent from the session list is inactive after the   *)
(* update; if it was active, the calls scheduled with its key are the       *)
(* update callbacks registered for it followed by every stale-devices       *)
(* callback, each once; if it was inactive already, none is scheduled.      *)
C7_StaleOnce ==
    [][UpdateStep =>
          \A i \in 1 .. Len(_devices) :
              LET k == _devices[i].dev_name
              IN  k \notin ListKeys(_sessions'.value) =>
                     /\ ~Get(_devices', k).is_active
                     /\ CallsFor(scheduled', k) =
                            IF _devices[i].device.is_active
                            THEN ExpectedUpdateCalls(_update_callbacks, k)
                                     \o ExpectedCalls(_stale_devices_callbacks, k)
                            ELSE <<>>]_vars

C7_Witness ==
    /\ event_name = "Sessions"
    /\ Has(_devices, "d1.web")
    /\ ~Get(_devices, "d1.web").is_active
    /\ scheduled = <<[callback |-> "on_update", msg |-> "d1.web"],
                     [callback |-> "on_stale", msg |-> "d1.web"]>>

\* a session of the list, not the integration's own, whose key is not cached
Unknown(list) ==
    \E j \in 1 .. Len(list) :
        ~Has(_devices, DevName(list[j])) /\ list[j].DeviceId # CONF_CLIENT_ID

\* the cached inactive devices whose key is in the list
Reappearing(list) ==
    {k \in ListKeys(list) : Has(_devices, k) /\ ~Get(_devices, k).is_active}

(* C8: an update in which unknown devices appear and no inactive device     *)
(* reappears schedules every registered new-devices callback once, as the   *)
(* last calls of the update; an update without unknown and without          *)
(* reappearing device schedules no new-devices callback.                    *)
C8_NewDevicesLast ==
    [][UpdateStep =>
          LET list == _sessions'.value
              expected == ExpectedCalls(_new_devices_callbacks, "0")
              m == Len(scheduled')
          IN  Reappearing(list) = {} =>
                  IF Unknown(list)
                  THEN /\ SelectSeq(scheduled', IsNewCall) = expected
                       /\ SubSeq(scheduled', m - Len(expected) + 1, m) = expected
                  ELSE SelectSeq(scheduled', IsNewCall) = <<>>]_vars

C8_Witness ==
    /\ event_name = "Sessions"
    /\ Len(_devices) = 2
    /\ _devices[2].device.is_active
    /\ scheduled = <<[callback |-> "on_update", msg |-> _devices[1].dev_name],
                     [callback |-> "on_stale", msg |-> _devices[1].dev_name],
                     [callback |-> "on_new", msg |-> "0"]>>

\* the last session of the list with key k
LastSession(list, k) ==
    list[CHOOSE j \in 1 .. Len(list) :
             DevName(list[j]) = k /\ \A h \in j + 1 .. Len(list) : DevName(list[h]) # k]

\* position of the first session of the list with key k
FirstIndex(list, k) ==
    CHOOSE j \in 1 .. Len(list) :
        DevName(list[j]) = k /\ \A h \in 1 .. j - 1 : DevName(list[h]) # k

(* C9: a cached inactive device that reappears in the session list has the  *)
(* session data of the list and is active after the update; the             *)
(* new-devices callbacks are scheduled once for each such device (and once  *)
(* more at the end if unknown devices appeared), and for each such device   *)
(* before any update callback scheduled with its key.                       *)
C9_Reappear ==
    [][UpdateStep =>
          LET list == _sessions'.value
              n == Len(_new_devices_callbacks)
              re == Reappearing(list)
          IN  /\ \A k \in re :
                    /\ Get(_devices', k) = [session |-> LastSession(list, k),
                                            is_active |-> TRUE]
                    /\ \A p \in 1 .. Len(scheduled') :
                          (IsUpdateCall(scheduled'[p]) /\ scheduled'[p].msg = k) =>
                              Len(SelectSeq(SubSeq(scheduled', 1, p - 1), IsNewCall))
                                  >= n * Cardinality({h \in re :
                                         FirstIndex(list, h) <= FirstIndex(list, k)})
              /\ re # {} =>
                    Len(SelectSeq(scheduled', IsNewCall))
                        = n * (Cardinality(re) + IF Unknown(list) THEN 1 ELSE 0)]_vars

C9_Witness ==
    /\ event_name = "Sessions"
    /\ Has(_devices, "d1.web")
    /\ Get(_devices, "d1.web").is_active
    /\ scheduled = <<[callback |-> "on_new", msg |-> "0"],
                     [callback |-> "on_update", msg |-> "d1.web"]>>

(* C10: every update callback scheduled by an update was registered with    *)
(* add_update_callback for the key it is scheduled with, and that key is    *)
(* the key of a device the update changed: one of the session list, or one  *)
(* that went inactive.                                                      *)
C10_UpdateCallbackDevice ==
    [][UpdateStep =>
          \A p \in 1 .. Len(scheduled') :
              LET c == scheduled'[p]
              IN  IsUpdateCall(c) =>
                     /\ \E j \in 1 .. Len(_update_callbacks) :
                           /\ _update_callbacks[j].callback = c.callback
                           /\ _update_callbacks[j].device = c.msg
                     /\ \/ c.msg \in ListKeys(_sessions'.value)
                        \/ /\ Has(_devices, c.msg)
                           /\ Get(_devices, c.msg).is_active
                           /\ ~Get(_devices', c.msg).is_active]_vars

\* d1 and d2 both changed; only the callback registered for d1 is scheduled
C10_Witness ==
    /\ event_name = "Sessions"
    /\ _update_callbacks = <<[callback |-> "on_update", device |-> "d1.web"]>>
    /\ \E p \in 1 .. Len(scheduled) :
          scheduled[p] = [callback |-> "on_update", msg |-> "d1.web"]
    /\ \E p \in 1 .. Len(scheduled) :
          scheduled[p] = [callback |-> "on_stale", msg |-> "d2.tv"]

-----------------------------------------------------------------------------
(* C11: media_play, media_pause, media_stop, media_next, media_previous and *)
(* media_seek post Playing/Unpause, Playing/Pause, Playing/Stop,            *)
(* Playing/NextTrack, Playing/PreviousTrack and Playing/Seek to the session *)
(* Id of the session data the device holds (the data update_data applied    *)
(* last; no Id when that data has none); Seek carries SeekPositionTicks,    *)
(* the integer part of position * 10000000 (truncated toward zero), and     *)
(* static = 'true'; every other command carries no parameter.               *)

StateOf(method) ==
    CASE method = "media_play" -> "Unpause"
      [] method = "media_pause" -> "Pause"
      [] method = "media_stop" -> "Stop"
      [] method = "media_next" -> "NextTrack"
      [] method = "media_previous" -> "PreviousTrack"
      [] method = "media_seek" -> "Seek"

Abs(x) == IF x >= 0 THEN x ELSE -x

\* t is position * 10000000 with its fraction dropped
IsIntegerPart(t, pos) ==
    /\ Abs(t) * pos.den <= Abs(pos.num) * 10000000
    /\ Abs(pos.num) * 10000000 < (Abs(t) + 1) * pos.den
    /\ (t > 0 => pos.num > 0) /\ (t < 0 => pos.num < 0)

C11_Calls ==
    \A i \in 1 .. Len(posted) :
        LET c == posted[i]
        IN  /\ c.call.path = "Playing/" \o StateOf(c.method)
            /\ IF c.method = "media_seek"
               THEN /\ DOMAIN c.call.params = {"SeekPositionTicks", "static"}
                    /\ IsIntegerPart(c.call.params.SeekPositionTicks, c.args[1])
                    /\ c.call.params.static = "true"
               ELSE DOMAIN c.call.params = {}

C11_Addressed ==
    Len(posted') > Len(posted) =>
        posted'[Len(posted')].call.session_id =
            IF "Id" \in DOMAIN arg_existing.session
            THEN <<arg_existing.session.Id>> ELSE <<>>

C11_TransportCommands == []C11_Calls /\ [][C11_Addressed]_vars

\* a seek to 3/20000000 s = 1.5 ticks, sent to the session applied last
C11_Witness ==
    /\ session_id(arg_existing) = <<"s2">>
    /\ Len(posted) = 1
    /\ posted[1].method = "media_seek"
    /\ posted[1].args[1] = [num |-> 3, den |-> 20000000]
    /\ posted[1].call = [session_id |-> <<"s2">>, path |-> "Playing/Seek",
                         params |-> [SeekPositionTicks |-> 1, static |-> "true"]]

(* C11 as stated: Seek carries SeekPositionTicks = position * 10000000. *)
C11_SeekExact ==
    \A i \in 1 .. Len(posted) :
        posted[i].method = "media_seek" =>
            posted[i].call.params.SeekPositionTicks * posted[i].args[1].den
                = posted[i].args[1].num * 10000000

-----------------------------------------------------------------------------
(* C12: the manager is unavailable (is_available false, info None) from     *)
(* construction until start() has completed and again once stop() has       *)
(* completed; is_available equals not is_stopping; info is the stored       *)
(* server info when is_stopping is false and None when it is true.          *)
C12_Availability ==
    /\ is_available = ~is_stopping
    /\ ~is_stopping => info = _info
    /\ is_stopping => info = "None"
    /\ main_pc # "running" => (~is_available /\ info = "None")
    /\ stop_pc = "stopped" => (~is_available /\ info = "None")

-----------------------------------------------------------------------------
(* C13: connect() raises ConfigEntryNotReady whenever the login result has  *)
(* no AccessToken; after that the manager is not stored under the server    *)
(* URL, no platform is forwarded and start() is never called: the handler   *)
(* is not installed, the client is not started, is_stopping stays true.     *)

C13_Raises ==
    (main_pc = "constructed" /\ main_pc' # "constructed" /\ ~jf_client'.authenticated)
        => main_pc' = "not_ready"

C13_NotSetUp ==
    main_pc = "not_ready" =>
        /\ "manager" \notin hass_data
        /\ forwarded = <<>>
        /\ ~jf_client.callback
        /\ ~jf_client.started
        /\ ~listening
        /\ is_stopping

C13_ConnectFailure ==
    /\ []C13_NotSetUp
    /\ [][C13_Raises /\ (main_pc = "not_ready" => main_pc' = "not_ready")]_vars

C13_Witness ==
    /\ main_pc = "not_ready"
    /\ jf_client.exists
    /\ ~jf_client.authenticated
    /\ hass_data = {}

-----------------------------------------------------------------------------
(* C14: for a configured URL written as [protocol] host [:port] [path],     *)
(* login() computes protocol (http:// when missing), host, port (:8096 for  *)
(* http and :443 for https when missing, the given one otherwise, :80       *)
(* included) and the path with one trailing '/' removed; normalising the    *)
(* result again returns it unchanged unless it ends with '/', which it does *)
(* exactly when the configured URL ends with '//'.                          *)

WellFormed(c) == c.port # <<":">>

EndsWithSlash(u) == u # <<>> /\ u[Len(u)] = "/"

ExpectedUrl(c) ==
    LET protocol == IF c.protocol = <<>> THEN HTTP ELSE c.protocol
        port == IF c.port # <<>> THEN c.port
                ELSE IF protocol = HTTP THEN <<":", "8", "0", "9", "6">>
                ELSE <<":", "4", "4", "3">>
        path == IF EndsWithSlash(c.path) THEN SubSeq(c.path, 1, Len(c.path) - 1)
                ELSE c.path
    IN  protocol \o c.host \o port \o path

C14_NormalisedUrl ==
    (server_url # <<>> /\ WellFormed(config_url)) =>
        /\ ~server_url[1].raised
        /\ server_url[1].url = ExpectedUrl(config_url)
        /\ EndsWithSlash(server_url[1].url)
               <=> (Len(config_url.path) >= 2 /\ EndsWithSlash(config_url.path)
                    /\ EndsWithSlash(SubSeq(config_url.path, 1, Len(config_url.path) - 1)))
        /\ ~EndsWithSlash(server_url[1].url)
               => NormaliseUrl(server_url[1].url) = server_url[1]

\* 'a/' has become 'http://a:8096'
C14_Witness ==
    /\ config_url = [protocol |-> <<>>, host |-> <<"a">>, port |-> <<>>, path |-> <<"/">>]
    /\ server_url = <<[raised |-> FALSE, url |-> HTTP \o <<"a", ":", "8", "0", "9", "6">>]>>

(* C14 as stated: normalising an already normalised URL returns it unchanged. *)
C14_Idempotent ==
    (server_url # <<>> /\ WellFormed(config_url)) =>
        NormaliseUrl(server_url[1].url) = server_url[1]

-----------------------------------------------------------------------------
(* What the claims about library_items speak of *)

\* the get_items requests made
ItemRequests == SelectSeq(requests, LAMBDA r : r.api = "get_items")

Returned == browsed # <<>> /\ ~browsed[1].raised

C16_ContainerChildren ==
    (browsed # <<>> /\ ItemRequests # <<>>
                    /\ (IsRoot(browse_args.media_content_type)
                           \/ IsContainer(browse_args.media_content_type))) =>
        IF browsed[1].raised THEN FALSE
        ELSE LET items == ItemRequests[1].response
                 children == browsed[1].node.children
             IN  /\ Len(children) = Len(items)
                 /\ \A i \in 1 .. Len(items) :
                       /\ children[i].media_content_id = Plain(items[i].Id)
                       /\ children[i].title = items[i].Name
                       /\ children[i].media_content_type = Type2Mediatype(items[i].Type)
                       /\ children[i].media_class = Type2Mediaclass(items[i].Type)
                       /\ children[i].can_play = Plain(IsPlayable(items[i].Type))
                       /\ children[i].can_expand = items[i].IsFolder

\* what holds of C16: the children are as stated whenever every Type
\* answered is a key of the mappings, and KeyError is raised otherwise
C16_MappedChildren ==
    (browsed # <<>> /\ ItemRequests # <<>>
                    /\ (IsRoot(browse_args.media_content_type)
                           \/ IsContainer(browse_args.media_content_type))) =>
        /\ browsed[1].raised <=>
              \E j \in 1 .. Len(ItemRequests[1].response) :
                  ItemRequests[1].response[j].Type \notin MappedTypes
        /\ ~browsed[1].raised => C16_ContainerChildren

(* C17: browsing a non-container content type, library_items returns a      *)
(* childless, non-expandable node describing the first item answered:       *)
(* media_content_id is the item's Id, title its Name, media type and class  *)
(* are mapped from its Type and can_play is IsPlayable(Type).               *)
C17_ContentNode ==
    (Returned /\ ~IsRoot(browse_args.media_content_type)
              /\ ~IsContainer(browse_args.media_content_type)
              /\ ItemRequests[1].response # <<>>) =>
        LET item == ItemRequests[1].response[1]
            node == browsed[1].node
        IN  /\ node.children = <<>>
            /\ ~node.can_expand
            /\ node.media_content_id = Plain(item.Id)
            /\ node.title = item.Name
            /\ node.media_content_type = Type2Mediatype(item.Type)
            /\ node.media_class = Type2Mediaclass(item.Type)
            /\ node.can_play = Plain(IsPlayable(item.Type))

-----------------------------------------------------------------------------
(* C18: after a WebSocketDisconnect followed by a login of the reconnect    *)
(* loop that returned true, the client the manager holds has the manager's  *)
(* event handler installed and has been started.                            *)
C18_HandlerAfterReconnect ==
    (event_name = "WebSocketDisconnect" /\ ws_pc = "idle" /\ login_result) =>
        (jf_client.callback /\ jf_client.started)

(* C19: whenever the reconnect loop is running and login eventually returns *)
(* true or stop() eventually completes, the loop is eventually left and the *)
(* event handler returns.                                                   *)
C19_LoopTerminates ==
    [](ws_pc # "idle" =>
          ((<>(login_result /\ ws_pc = "idle") \/ <>(stop_pc = "stopped"))
              => <>(ws_pc = "idle")))

\* what holds of C19: the loop is left once stop() has set is_stopping and
\* start() is past the statement that clears it
C19_AfterStart ==
    (stop_pc = "stopped" /\ is_stopping /\ main_pc # "started") ~> (ws_pc = "idle")

\* the devices property: the dictionary itself
devices == _devices

(* C20: the device cache only grows: no step removes a cached device or    *)
(* changes its key, and a device absent from the session list of a         *)
(* Sessions event keeps the session data it had.                            *)
C20_CacheGrows ==
    [][/\ Len(devices') >= Len(devices)
       /\ \A i \in 1 .. Len(devices) :
             /\ devices'[i].dev_name = devices[i].dev_name
             /\ (~UpdateStep \/ devices[i].dev_name \notin ListKeys(_sessions'.value))
                   => devices'[i].device.session = devices[i].device.session]_vars

\* a device that was playing is absent from the last, non-empty, list: it is
\* inactive and still holds the playing session
C20_Witness ==
    /\ event_name = "Sessions"
    /\ Len(devices) = 2
    /\ _sessions.value # <<>>
    /\ devices[1].dev_name \notin ListKeys(_sessions.value)
    /\ ~devices[1].device.is_active
    /\ HasItem(devices[1].device.session)
    /\ devices[2].device.is_active

(* C21: every WebSocketConnect event sends ('SessionsStart', '0,1500') on  *)
(* the websocket exactly once and changes neither the session list nor the *)
(* device cache; a Sessions event is handled on a connection on which that *)
(* one subscription has been sent.                                          *)
ConnectStep == ~wsc.open /\ wsc'.open

C21_Subscription ==
    /\ [](wsc.open => wsc.sent = <<<<"SessionsStart", "0,1500">>>>)
    /\ [][/\ ConnectStep =>
                /\ event_name' = "WebSocketConnect"
                /\ wsc'.sent = Append(wsc.sent, <<"SessionsStart", "0,1500">>)
                /\ UNCHANGED <<_sessions, _devices, scheduled>>
          /\ event_name' = "WebSocketConnect" /\ event_name # "WebSocketConnect"
                => ConnectStep
          /\ UpdateStep =>
                /\ wsc.open
                /\ wsc.sent = <<<<"SessionsStart", "0,1500">>>>]_vars

\* a Sessions event has filled the cache on a connection opened after a
\* WebSocketDisconnect event
C21_Witness ==
    /\ event_name = "Sessions"
    /\ waits = <<>> /\ login_result = FALSE /\ timeout_gen # expo(FALSE, 0)
    /\ wsc.open
    /\ _devices # <<>>

====
